---- MODULE Spec2Model ----
(***************************************************************************)
(* SecureNotesMobile: the encrypted-container synchronisation core.        *)
(*                                                                         *)
(* The model follows src/App.tsx (second, current version of App, lines    *)
(* 254-547), src/src/lib/db.ts, src/src/lib/crypto.ts (lines 1-102),       *)
(* src/src/lib/storage/SafProvider.ts (direct-handle variant, lines 1-80), *)
(* src/src/screens/UnlockScreen.tsx and src/src/screens/EditorScreen.tsx.  *)
(*                                                                         *)
(* Every async handler is a task: a record holding the handler's position  *)
(* (pc) and the values its closure captured.  One action models the code   *)
(* a handler runs between two awaited platform calls; awaits of functions  *)
(* that never leave the microtask queue (deriveKey, decryptData,           *)
(* encryptData, selectFile, connect) do not yield to timers, I/O or the    *)
(* user and are part of the surrounding step.                              *)
(*                                                                         *)
(* Cryptography.  AES and PBKDF2 come from the crypto-js library, which is *)
(* not part of the repository.  The cipher is modelled as a keyed          *)
(* byte-wise permutation (addition of the key modulo 256) run in the code's*)
(* CBC chaining with the code's PKCS#7 padding, crypto-js' unchecked       *)
(* unpadding and the code's container layout; PBKDF2 is modelled as a      *)
(* deterministic mixing function that is injective on the bounded domain.  *)
(***************************************************************************)
EXTENDS Integers, Sequences, FiniteSets, TLC

(***************************************************************************)
(* Bounds of the model                                                     *)
(***************************************************************************)
NumPasswords == 2
NumSalts == 2
NumIVs == 3
NumFiles == 2
NumNotes == 1
NumTexts == 2
MaxOps == 1
MaxSyncs == 1
MaxTimers == 2
MaxTasks == 2

(***************************************************************************)
(* Program constants                                                       *)
(***************************************************************************)
SaltLen == 16
IvLen == 12
BlockSize == 16
ByteMod == 256
NoUri == 0

Passwords == 1..NumPasswords
Uris == 1..NumFiles
NoteIds == 1..NumNotes
TaskIds == 1..MaxTasks

\* null of a Uint8Array | null or string | null state cell.  No cell of the
\* program ever holds an empty array or string, so <<>> is free to stand for null.
Null == <<>>
\* a file that does not exist (a file of zero bytes is <<>>)
Absent == <<-1>>

Rep(n, v) == [i \in 1..n |-> v]

\* Uint8Array.prototype.slice(from): from is a 0-based offset, clamped
SliceFrom(s, from) == IF from >= Len(s) THEN <<>> ELSE SubSeq(s, from + 1, Len(s))
\* Uint8Array.prototype.slice(0, to)
SliceTo(s, to) == IF to >= Len(s) THEN s ELSE SubSeq(s, 1, to)

RECURSIVE Sum(_)
Sum(s) == IF s = <<>> THEN 0 ELSE Head(s) + Sum(Tail(s))

(***************************************************************************)
(* crypto.ts                                                               *)
(***************************************************************************)
\* the values Random.getRandomBytes(16) may return
SaltValues(n) == { Rep(SaltLen, v) : v \in 1..n }
\* the values Random.getRandomBytesAsync(12) may return
IVValues(n) == { Rep(IvLen, v) : v \in 1..n }

\* PBKDF2(password, salt): deterministic, and injective on the passwords and
\* salts of the model.  The factor is chosen so that decrypting under the key of
\* another password yields, depending on the pair, bytes that unpad (and then
\* reach the header check) or a negative length (and decryptData throws).
deriveKey(password, s) == <<(15 * password + Sum(s)) % ByteMod>>

\* CBC with an IV of 12 bytes: crypto-js reads the missing fourth IV word as 0
IvBlock(iv) == iv \o Rep(BlockSize - Len(iv), 0)

\* CryptoJS.pad.Pkcs7.pad
Pkcs7Pad(data) ==
    LET n == BlockSize - (Len(data) % BlockSize) IN data \o Rep(n, n)

\* CryptoJS.pad.Pkcs7.unpad: the last byte is the number of bytes dropped,
\* unchecked; the result is the new sigBytes, which may be negative
Pkcs7UnpadLen(data) ==
    IF Len(data) = 0 THEN 0 ELSE Len(data) - data[Len(data)]

CbcEncrypt(plain, k, ivb) ==
    LET c[i \in 1..Len(plain)] ==
            (plain[i] + (IF i <= BlockSize THEN ivb[i] ELSE c[i - BlockSize]) + k)
                % ByteMod
    IN  [i \in 1..Len(plain) |-> c[i]]

CbcDecrypt(ct, k, ivb) ==
    [i \in 1..Len(ct) |->
        (ct[i] + 2 * ByteMod - (IF i <= BlockSize THEN ivb[i] ELSE ct[i - BlockSize]) - k)
            % ByteMod]

\* an encryptData that uses one IV for every call
encryptData_FixedIV(data, key, iv) ==
    Rep(IvLen, 1) \o CbcEncrypt(Pkcs7Pad(data), key[1], IvBlock(Rep(IvLen, 1)))

\* encryptData(data, keyBase64) with the IV that getRandomBytesAsync returned
encryptData(data, key, iv) == iv \o CbcEncrypt(Pkcs7Pad(data), key[1], IvBlock(iv))

\* a decryptData that takes the whole container, IV included, as ciphertext
decryptData_IvNotSkipped(data, key) ==
    LET iv    == SliceTo(data, IvLen)
        plain == CbcDecrypt(data, key[1], IvBlock(iv))
        n     == Pkcs7UnpadLen(plain)
    IN  IF n < 0 THEN [ok |-> FALSE, bytes |-> <<>>]
        ELSE [ok |-> TRUE, bytes |-> SliceTo(plain, n)]

\* decryptData(data, keyBase64): ok = FALSE when new Uint8Array(sigBytes) throws
decryptData(data, key) ==
    LET iv    == SliceTo(data, IvLen)
        ct    == SliceFrom(data, IvLen)
        plain == CbcDecrypt(ct, key[1], IvBlock(iv))
        n     == Pkcs7UnpadLen(plain)
    IN  IF n < 0 THEN [ok |-> FALSE, bytes |-> <<>>]
        ELSE [ok |-> TRUE, bytes |-> SliceTo(plain, n)]

(***************************************************************************)
(* The database image: the bytes of the local SQLite file.                 *)
(***************************************************************************)
headerBytes == <<83, 81, 76, 105, 116, 101, 32, 102, 111, 114, 109, 97, 116, 32, 51>>

\* handleUnlock without its header check: whatever decrypts is accepted
isValid_Unchecked(dbData) == Len(dbData) >= 0

\* the header check of handleUnlock
\* (the loop finds no difference in the first 15 bytes; a missing byte differs)
isValid(dbData) == SliceTo(dbData, Len(headerBytes)) = headerBytes

\* the notes table: per note id, <<>> (no row) or <<title, content>>
EmptyTable == [i \in NoteIds |-> <<>>]

RECURSIVE RowBytes(_, _)
RowBytes(table, i) ==
    IF i > Len(table) THEN <<>>
    ELSE (IF table[i] = <<>> THEN <<0, 0, 0>> ELSE <<1>> \o table[i])
             \o RowBytes(table, i + 1)

\* the file SQLite writes for a table: "SQLite format 3\000" and the pages
Image(table) == headerBytes \o <<0>> \o RowBytes(table, 1)

\* the table SQLite reads from a file
ParseImage(bytes) ==
    [i \in NoteIds |->
        LET base == Len(headerBytes) + 1 + 3 * (i - 1) IN
        IF base + 3 <= Len(bytes) /\ bytes[base + 1] = 1
        THEN <<bytes[base + 2], bytes[base + 3]>>
        ELSE <<>>]

\* the bytes are a file SQLite can read the notes table from
WellFormed(bytes) == bytes = Image(ParseImage(bytes))

\* a file that starts like a database and is cut inside its first row
DamagedImage == headerBytes \o <<0, 1>>

(***************************************************************************)
(* State                                                                   *)
(***************************************************************************)
VARIABLES
    state,          \* App: useState<AppState>
    loading,        \* App: useState(false)
    error,          \* App: useState(''), "" or the kind of the message
    encryptedData,  \* App: the container read by handleOpen, or Null
    masterKey,      \* App: the derived key, or Null
    salt,           \* App: the salt, or Null
    db,             \* db.ts: the module-level handle, "null" or "open"
    dbFile,         \* local working copy secure_notes_internal.db, or Absent
    wal,            \* its -wal side file: <<>> or <<table>>, the committed table
    fileUri,        \* SafProvider.fileUri, or NoUri
    files,          \* external storage: the bytes behind each uri
    tasks,          \* the handlers in flight
    lim,            \* the scope of the run: handlers in flight, submit timers, values, history
    scen,           \* history: progress of the create-save-sync-reopen scenario
    alert,          \* the Alert.alert of handleSync on screen: "" or its kind
    opened,         \* history (kept when lim.hist): the salt of the container the
                    \* session was unlocked from, or Null
    ed,             \* EditorScreen: its React state, its auto-save timers, its
                    \* handlers in flight
    rngDrawn,       \* history (kept when lim.fresh): what getRandomBytesAsync returned
    call,           \* a call of a library function examined on its own: its
                    \* arguments, its position and its results (NoCall otherwise)
    encLog          \* history (kept when lim.fresh): the calls of encryptData, in
                    \* order, each [key, data, out]

vars == <<state, loading, error, encryptedData, masterKey, salt,
          db, dbFile, wal, fileUri, files, tasks, lim, scen,
          alert, opened, ed, rngDrawn, encLog, call>>

appVars == <<state, loading, error, encryptedData, masterKey, salt>>
dbVars == <<db, dbFile, wal>>

Idle == [kind |-> "idle", pc |-> "-", pw |-> 0, enc |-> Null, key |-> Null,
         slt |-> Null, data |-> Null, uri |-> NoUri, silent |-> FALSE, note |-> <<>>,
         stale |-> "no"]

\* history: handleLogout runs while saveNote or a sync of the editor is still
\* running ("loggedOut"), and a file is selected after that ("yes")
LoggedOut(tk) ==
    [u \in TaskIds |-> IF tk[u].kind \in {"save", "sync"} /\ tk[u].stale = "no"
                       THEN [tk[u] EXCEPT !.stale = "loggedOut"] ELSE tk[u]]
Outlived(tk) ==
    [u \in TaskIds |-> IF tk[u].kind \in {"save", "sync"} /\ tk[u].stale = "loggedOut"
                       THEN [tk[u] EXCEPT !.stale = "yes"] ELSE tk[u]]

IsFree(t) == tasks[t].kind = "idle"
Slots == 1..lim.tasks
\* a new handler takes the lowest free slot
FreeSlot == CHOOSE t \in Slots : IsFree(t) /\ \A u \in Slots : IsFree(u) => t <= u
HasFree == \E t \in Slots : IsFree(t)
\* the timers of UnlockScreen.handleSubmit that can be pending
SubmitSlots == 1..lim.taps
SubmitSlot == CHOOSE t \in SubmitSlots : IsFree(t) /\ \A u \in SubmitSlots : IsFree(u) => t <= u
Quiet == \A t \in TaskIds : IsFree(t)
generateSalt == SaltValues(lim.salts)
randomIV == IVValues(lim.ivs)
\* Random.getRandomBytesAsync(12): any value, or (lim.fresh) a value it has not
\* returned before
getRandomBytesAsync == IF lim.fresh THEN randomIV \ rngDrawn ELSE randomIV
Typed == 1..lim.pws
Texts == 1..lim.texts
\* the files the user picks in the system file dialog
Picks == 1..lim.files

\* EditorScreen before a note is opened: selectedNote null, title and content
\* '', no auto-save timer, no handler in flight.  sel is <<>> or <<id, title,
\* content>>; timers holds the closure of each pending timer; effLive tells that
\* the timer of the last run of the auto-save effect is pending; ops holds the
\* handlers waiting for a store operation.  History: burst, base, saves and
\* syncs follow a burst of edits; log is what the last step of the screen did.
EdIdle == [sel |-> <<>>, title |-> 0, content |-> 0, timers |-> <<>>, effLive |-> FALSE,
           ops |-> <<>>, burst |-> "off", base |-> <<>>, saves |-> 0, syncs |-> 0,
           log |-> ""]

\* log is what the last step reported: the console.error of the catch block of
\* handleSync, handleOpen or handleCreatePassword, the branch handleOpen took on
\* the bytes it read, or that the file dialog was left without a file
Scen0 == [ph |-> 0, pw |-> 0, uri |-> NoUri, note |-> <<>>, log |-> ""]
\* the scenario goes on when the step is its next one, and starts over otherwise
Track(isNext, nxt) == scen' = IF isNext THEN [nxt EXCEPT !.log = ""] ELSE Scen0
Stay(ph) == Track(scen.ph = ph, scen)
Off == Track(FALSE, scen)
\* Alert.alert is modal: no button of the screen below can be pressed
NoAlert == alert = ""
Only(t) == \A u \in TaskIds \ {t} : IsFree(u)
At(t, k, p) == tasks[t].kind = k /\ tasks[t].pc = p

InitCells ==
    /\ state = "WELCOME"
    /\ loading = FALSE
    /\ error = ""
    /\ encryptedData = Null
    /\ masterKey = Null
    /\ salt = Null
    /\ db = "null"
    /\ dbFile = Absent
    /\ wal = <<>>
    /\ fileUri = NoUri
    /\ files = [u \in Uris |-> <<>>]
    /\ tasks = [t \in TaskIds |-> Idle]
    /\ scen = Scen0
    /\ alert = ""
    /\ opened = Null
    /\ ed = EdIdle
    /\ rngDrawn = {}
    /\ encLog = <<>>

NoCall == [pc |-> "-"]

InitApp == InitCells /\ call = NoCall

\* handlers overlap; one salt value, one text
Init == InitApp /\ lim = [tasks |-> MaxTasks, salts |-> 1, texts |-> 1, files |-> 1, hist |-> FALSE,
                          pws |-> NumPasswords, ivs |-> 1, taps |-> MaxTasks, fresh |-> FALSE]

\* one handler at a time; all salt values and texts
InitSeq == InitApp /\ lim = [tasks |-> 1, salts |-> NumSalts, texts |-> NumTexts, files |-> 1,
                             hist |-> TRUE, pws |-> NumPasswords, ivs |-> 1, taps |-> 1, fresh |-> FALSE]

\* one handler at a time; all files, one salt value, one text
InitFiles == InitApp /\ lim = [tasks |-> 1, salts |-> 1, texts |-> 1, files |-> NumFiles,
                               hist |-> FALSE, pws |-> NumPasswords, ivs |-> 1, taps |-> 1, fresh |-> FALSE]

\* one handler at a time, except that the submit button of UnlockScreen can be
\* pressed while the timer of an earlier press is pending; all salt values
InitTaps == InitApp /\ lim = [tasks |-> 1, salts |-> NumSalts, texts |-> 1, files |-> 1,
                              hist |-> TRUE, pws |-> 1, ivs |-> 1, taps |-> MaxTasks, fresh |-> FALSE]

\* one handler at a time; all IV values, none returned twice by the random
\* number generator
InitRng == InitApp /\ lim = [tasks |-> 1, salts |-> 1, texts |-> 1, files |-> 1,
                             hist |-> FALSE, pws |-> NumPasswords, ivs |-> NumIVs, taps |-> 1,
                             fresh |-> TRUE]

(***************************************************************************)
(* db.ts: the effect of each store operation on <<db, dbFile, wal>>.  An   *)
(* operation is in flight from the step that calls it to the step that     *)
(* resumes after it, which applies its effect.                             *)
(***************************************************************************)
\* what a query on the open handle sees
LiveTable == IF wal # <<>> THEN wal[1] ELSE ParseImage(dbFile)

\* resetDB: close the handle, delete the file and its side files
resetDB ==
    /\ db' = "null"
    /\ dbFile' = Absent
    /\ wal' = <<>>

\* an initDB without its "Fresh Start" block
FreshStart_Skipped == [file |-> dbFile, wal |-> wal]

\* initDB, "Delete existing DB if any (Fresh Start)": when the file exists, the
\* handle is closed and the file and its -wal and -shm side files are deleted
FreshStart ==
    IF dbFile # Absent THEN [file |-> Absent, wal |-> <<>>]
    ELSE [file |-> dbFile, wal |-> wal]

\* initDB: the fresh start, openDatabaseAsync, CREATE TABLE IF NOT EXISTS notes.
\* Opening creates the file when there is none (SQLite then drops a log left
\* without its file); an existing file keeps its table, rows and log.
initDB ==
    LET old == FreshStart IN
    /\ db' = "open"
    /\ dbFile' = IF old.file = Absent THEN Image(EmptyTable) ELSE old.file
    /\ wal' = IF old.file = Absent THEN <<>> ELSE old.wal

\* importDB(data): drop the side files, write data as the file, (re)open
importDB(data) ==
    /\ db' = "open"
    /\ dbFile' = data
    /\ wal' = <<>>

\* importDB(data) when openDatabaseAsync rejects: the file is written, the
\* side files are gone, the module's db still names the handle it closed
importDB_Throws(data) ==
    /\ db' = db
    /\ dbFile' = data
    /\ wal' = <<>>

\* the outcomes of openDatabaseAsync (expo-sqlite, not part of the
\* repository) on the file importDB wrote: on a file SQLite cannot read it
\* either rejects, or returns a handle whose first statement fails; that
\* statement is ensureSchema's ALTER TABLE, whose error is swallowed
OpenOutcomes(data) == IF WellFormed(data) THEN {TRUE} ELSE BOOLEAN

\* an export that reads the file without the checkpoint
Checkpointed_Skipped == dbFile

\* exportDB: the file after PRAGMA wal_checkpoint(TRUNCATE), run when db is set
Checkpointed == IF db = "open" /\ wal # <<>> THEN Image(wal[1]) ELSE dbFile

\* an exportDB that reads the file as it is
exportDB_ReadsFileOnly ==
    /\ db' = db
    /\ dbFile' = dbFile
    /\ wal' = wal

\* exportDB: checkpoint, then read the whole file; throws when it is missing
exportDB ==
    /\ db' = db
    /\ dbFile' = Checkpointed
    /\ wal' = IF db = "open" THEN <<>> ELSE wal

\* deleteNote(id): the row is gone from what a query sees
deleteNote(id) ==
    /\ db' = db
    /\ dbFile' = dbFile
    /\ wal' = <<[LiveTable EXCEPT ![id] = <<>>]>>

\* runCommand('UPDATE notes SET isPinned = ? WHERE id = ?'): a committed write;
\* the isPinned column is not part of the table of the model
runCommand_Pin ==
    /\ db' = db
    /\ dbFile' = dbFile
    /\ wal' = <<LiveTable>>

\* runCommand('INSERT OR REPLACE INTO notes ...'): a committed write lands in the log
runCommand(note) ==
    /\ db' = db
    /\ dbFile' = dbFile
    /\ wal' = <<[LiveTable EXCEPT ![note[1]] = <<note[2], note[3]>>]>>

Finish(t) == tasks' = [tasks EXCEPT ![t] = Idle]
Goto(t, p) == tasks' = [tasks EXCEPT ![t].pc = p]

(***************************************************************************)
(* WelcomeScreen, CreateDbScreen and UnlockScreen buttons                  *)
(***************************************************************************)
\* WelcomeScreen "Create New Database": onCreate, disabled while loading
OnCreate ==
    /\ state = "WELCOME" /\ ~loading /\ NoAlert
    /\ state' = "CREATE_DB_NAME"
    /\ UNCHANGED <<loading, error, encryptedData, masterKey, salt, dbVars, fileUri, files, tasks>>
    /\ Off
    /\ UNCHANGED <<lim, alert, opened, ed, rngDrawn, encLog, call>>

\* Cancel of UnlockScreen (disabled while loading, covered by the error modal)
\* and of CreateDbScreen (always enabled)
OnCancel ==
    /\ \/ state \in {"UNLOCK", "CREATE_PASSWORD"} /\ ~loading /\ error = ""
       \/ state = "CREATE_DB_NAME"
    /\ NoAlert
    /\ state' = "WELCOME"
    /\ UNCHANGED <<loading, error, encryptedData, masterKey, salt, dbVars, fileUri, files, tasks>>
    /\ Off
    /\ UNCHANGED <<lim, alert, opened, ed, rngDrawn, encLog, call>>

\* "Try Again" of the error modal of UnlockScreen
OnErrorDismiss ==
    /\ state \in {"UNLOCK", "CREATE_PASSWORD"} /\ error # "" /\ NoAlert
    /\ error' = ""
    /\ UNCHANGED <<state, loading, encryptedData, masterKey, salt, dbVars, fileUri, files, tasks>>
    /\ Off
    /\ UNCHANGED <<lim, alert, opened, ed, rngDrawn, encLog, call>>

(***************************************************************************)
(* handleOpen                                                              *)
(***************************************************************************)
handleOpen_Start ==
    /\ state = "WELCOME" /\ ~loading /\ NoAlert /\ HasFree
    /\ loading' = TRUE
    /\ error' = ""
    /\ tasks' = [tasks EXCEPT ![FreeSlot] = [Idle EXCEPT !.kind = "open", !.pc = "reset"]]
    /\ UNCHANGED <<state, encryptedData, masterKey, salt, dbVars, fileUri, files>>
    /\ Stay(4)
    /\ UNCHANGED <<lim, alert, opened, ed, rngDrawn, encLog, call>>

handleOpen_Reset(t) ==
    /\ At(t, "open", "reset")
    /\ resetDB
    /\ loading' = TRUE
    /\ Goto(t, "pick")
    /\ UNCHANGED <<state, error, encryptedData, masterKey, salt, fileUri, files>>
    /\ Stay(4)
    /\ UNCHANGED <<lim, alert, opened, ed, rngDrawn, encLog, call>>

\* provider.pickFile() returns a uri, or null when the user aborts
\* a handleOpen that returns from the cancelled pick as it is
CanceledPickLoading_Kept(l) == l

\* handleOpen, if (!uri): setLoading(false) before the return (the return
\* runs the finally block as well)
CanceledPickLoading(l) == FALSE

handleOpen_Picked(t) ==
    /\ At(t, "open", "pick")
    /\ \E u \in Picks \cup {NoUri} :
        /\ IF u = NoUri
           THEN /\ loading' = CanceledPickLoading(loading)
                /\ Finish(t)
                /\ UNCHANGED fileUri
           ELSE /\ fileUri' = u
                /\ tasks' = Outlived([tasks EXCEPT ![t].pc = "read", ![t].uri = u])
                /\ UNCHANGED loading
        /\ IF u = NoUri
           THEN scen' = [Scen0 EXCEPT !.log = "canceled"]
           ELSE Track(scen.ph = 4 /\ u = scen.uri, scen)
    /\ UNCHANGED <<lim, alert, opened, ed, rngDrawn, encLog, call>>
    /\ UNCHANGED <<state, error, encryptedData, masterKey, salt, dbVars, files>>

\* a handleOpen that takes whatever it read for a container
OpenBranch_NoEmptyCheck(ok, data) == IF ok THEN "UNLOCK" ELSE "throw"

\* a handleOpen that takes a failed read for an empty file
OpenBranch_FailedAsEmpty(ok, data) ==
    IF ok /\ Len(data) > 0 THEN "UNLOCK" ELSE "CREATE_PASSWORD"

\* the if / else if / else of handleOpen on the result of provider.read(); ok is
\* FALSE when read() throws (it returns null only without a selected file)
OpenBranch(ok, data) ==
    IF ok /\ Len(data) > 0 THEN "UNLOCK"
    ELSE IF ok /\ Len(data) = 0 THEN "CREATE_PASSWORD"
    ELSE "throw"

\* provider.read() returns the bytes of the file or throws
handleOpen_Read(t) ==
    /\ At(t, "open", "read")
    /\ \E ok \in BOOLEAN :
        LET data   == files[tasks[t].uri]
            branch == OpenBranch(ok, data)
        IN
        /\ IF branch = "UNLOCK"
           THEN encryptedData' = data /\ state' = "UNLOCK" /\ UNCHANGED error
           ELSE IF branch = "CREATE_PASSWORD"
           THEN state' = "CREATE_PASSWORD" /\ UNCHANGED <<encryptedData, error>>
           ELSE error' = "open" /\ UNCHANGED <<state, encryptedData>>
        /\ scen' = [(IF scen.ph = 4 /\ ok THEN [scen EXCEPT !.ph = 5] ELSE Scen0)
                        EXCEPT !.log = IF ~ok THEN "open"
                                       ELSE IF Len(data) = 0 THEN "openEmpty" ELSE "openData"]
    /\ UNCHANGED <<lim, alert, opened, ed, rngDrawn, encLog, call>>
    /\ loading' = FALSE
    /\ Finish(t)
    /\ UNCHANGED <<masterKey, salt, dbVars, fileUri, files>>

(***************************************************************************)
(* handleCreateNew                                                         *)
(***************************************************************************)
handleCreateNew_Start ==
    /\ state = "CREATE_DB_NAME" /\ NoAlert /\ HasFree
    /\ loading' = TRUE
    /\ error' = ""
    /\ tasks' = [tasks EXCEPT ![FreeSlot] = [Idle EXCEPT !.kind = "createNew", !.pc = "yield"]]
    /\ UNCHANGED <<state, encryptedData, masterKey, salt, dbVars, fileUri, files>>
    /\ Off
    /\ UNCHANGED <<lim, alert, opened, ed, rngDrawn, encLog, call>>

handleCreateNew_Yield(t) ==
    /\ At(t, "createNew", "yield")
    /\ Goto(t, "reset")
    /\ UNCHANGED <<appVars, dbVars, fileUri, files>>
    /\ Off
    /\ UNCHANGED <<lim, alert, opened, ed, rngDrawn, encLog, call>>

handleCreateNew_Reset(t) ==
    /\ At(t, "createNew", "reset")
    /\ resetDB
    /\ Goto(t, "create")
    /\ UNCHANGED <<appVars, fileUri, files>>
    /\ Off
    /\ UNCHANGED <<lim, alert, opened, ed, rngDrawn, encLog, call>>

\* provider.createNewFile: createFile returns a uri, or null when the user
\* aborts, which createNewFile turns into an exception
handleCreateNew_Created(t) ==
    /\ At(t, "createNew", "create")
    /\ \E u \in Picks \cup {NoUri} :
        IF u = NoUri
        THEN /\ error' = "create" /\ UNCHANGED <<state, fileUri>>
             /\ scen' = [Scen0 EXCEPT !.log = "canceled"]
             /\ Finish(t)
        ELSE /\ fileUri' = u /\ state' = "CREATE_PASSWORD" /\ UNCHANGED error /\ Off
             /\ tasks' = Outlived([tasks EXCEPT ![t] = Idle])
    /\ loading' = FALSE
    /\ UNCHANGED <<encryptedData, masterKey, salt, dbVars, files>>
    /\ UNCHANGED <<lim, alert, opened, ed, rngDrawn, encLog, call>>

(***************************************************************************)
(* UnlockScreen.handleSubmit: setTimeout(() => onSubmit(password), 100)    *)
(***************************************************************************)
UnlockScreen_handleSubmit ==
    /\ state \in {"UNLOCK", "CREATE_PASSWORD"} /\ ~loading /\ error = "" /\ NoAlert
    /\ \E t \in SubmitSlots : IsFree(t)
    /\ \E password \in Typed :
        /\ tasks' = [tasks EXCEPT ![SubmitSlot] =
            [Idle EXCEPT !.kind = IF state = "UNLOCK" THEN "unlock" ELSE "createPw",
                         !.pc = "submit",
                         !.pw = password,
                         !.enc = IF state = "UNLOCK" THEN encryptedData ELSE Null]]
        /\ Track(scen.ph = 5 /\ password = scen.pw /\ Quiet, scen)
    /\ UNCHANGED <<lim, alert, opened, ed, rngDrawn, encLog, call>>
    /\ UNCHANGED <<appVars, dbVars, fileUri, files>>

(***************************************************************************)
(* handleUnlock                                                            *)
(***************************************************************************)
handleUnlock_Start(t) ==
    /\ At(t, "unlock", "submit")
    /\ IF tasks[t].enc = Null
       THEN Finish(t) /\ UNCHANGED <<loading, error>>
       ELSE loading' = TRUE /\ error' = "" /\ Goto(t, "yield")
    /\ UNCHANGED <<state, encryptedData, masterKey, salt, dbVars, fileUri, files>>
    /\ Stay(5)
    /\ UNCHANGED <<lim, alert, opened, ed, rngDrawn, encLog, call>>

\* the try block up to the call of importDB, or the catch block up to the
\* call of resetDB
handleUnlock_Decrypt(t) ==
    /\ At(t, "unlock", "yield")
    /\ LET s          == SliceTo(tasks[t].enc, SaltLen)
           derivedKey == deriveKey(tasks[t].pw, s)
           dbData     == decryptData(SliceFrom(tasks[t].enc, SaltLen), derivedKey)
       IN  /\ salt' = s
           /\ IF dbData.ok /\ isValid(dbData.bytes)
              THEN /\ tasks' = [tasks EXCEPT ![t].pc = "import", ![t].key = derivedKey,
                                            ![t].data = dbData.bytes]
                   /\ UNCHANGED error
              ELSE /\ error' = "unlock"
                   /\ tasks' = [tasks EXCEPT ![t].pc = "failReset"]
    /\ UNCHANGED <<state, loading, encryptedData, masterKey, dbVars, fileUri, files>>
    /\ Stay(5)
    /\ UNCHANGED <<lim, alert, opened, ed, rngDrawn, encLog, call>>

handleUnlock_Imported(t) ==
    /\ At(t, "unlock", "import")
    /\ \E opens \in OpenOutcomes(tasks[t].data) :
        IF opens
        THEN /\ importDB(tasks[t].data)
             /\ masterKey' = tasks[t].key
             /\ state' = "READY"
             /\ loading' = FALSE
             /\ Finish(t)
             /\ UNCHANGED error
             /\ Track(scen.ph = 5, [scen EXCEPT !.ph = 6])
             /\ opened' = IF lim.hist THEN SliceTo(tasks[t].enc, SaltLen) ELSE Null
        ELSE /\ importDB_Throws(tasks[t].data)
             /\ error' = "unlock"
             /\ Goto(t, "failReset")
             /\ Stay(5)
             /\ UNCHANGED <<masterKey, state, loading, opened>>
    /\ UNCHANGED <<encryptedData, salt, fileUri, files>>
    /\ UNCHANGED <<lim, alert, ed, rngDrawn, encLog, call>>

handleUnlock_Failed(t) ==
    /\ At(t, "unlock", "failReset")
    /\ resetDB
    /\ loading' = FALSE
    /\ Finish(t)
    /\ UNCHANGED <<state, error, encryptedData, masterKey, salt, fileUri, files>>
    /\ Track(scen.ph = 5, [scen EXCEPT !.ph = 6])
    /\ UNCHANGED <<lim, alert, opened, ed, rngDrawn, encLog, call>>

(***************************************************************************)
(* performSync(k, s): exportDB, encryptData, salt || payload, provider.write*)
(***************************************************************************)
\* finalData of performSync
Container(s, dbData, k, iv) == s \o encryptData(dbData, k, iv)

\* the step that resumes after exportDB: the export's effect, then either the
\* call of provider.write (which reads this.fileUri) or the exception
performSync_Export(t, next) ==
    /\ exportDB
    /\ UNCHANGED call
    /\ IF Checkpointed = Absent \/ fileUri = NoUri
       THEN tasks' = [tasks EXCEPT ![t].pc = "throw"] /\ UNCHANGED <<rngDrawn, encLog>>
       ELSE \E iv \in getRandomBytesAsync :
               /\ tasks' = [tasks EXCEPT ![t].pc = next, ![t].uri = fileUri,
                     ![t].data = Container(tasks[t].slt, Checkpointed, tasks[t].key, iv)]
               /\ rngDrawn' = IF lim.fresh THEN rngDrawn \cup {iv} ELSE rngDrawn
               /\ encLog' = IF lim.fresh
                            THEN Append(encLog, [key |-> tasks[t].key, data |-> Checkpointed,
                                     out |-> encryptData(Checkpointed, tasks[t].key, iv)])
                            ELSE encLog

\* SecureStorage.saveFile(uri, base64) resolves
providerWrite(t) == files' = [files EXCEPT ![tasks[t].uri] = tasks[t].data]

(***************************************************************************)
(* handleCreatePassword                                                    *)
(***************************************************************************)
handleCreatePassword_Start(t) ==
    /\ At(t, "createPw", "submit")
    /\ loading' = TRUE
    /\ Goto(t, "yield")
    /\ UNCHANGED <<state, error, encryptedData, masterKey, salt, dbVars, fileUri, files>>
    /\ Off
    /\ UNCHANGED <<lim, alert, opened, ed, rngDrawn, encLog, call>>

handleCreatePassword_Derive(t) ==
    /\ At(t, "createPw", "yield")
    /\ \E s \in generateSalt :
        /\ salt' = s
        /\ tasks' = [tasks EXCEPT ![t].pc = "init", ![t].slt = s,
                                  ![t].key = deriveKey(tasks[t].pw, s)]
    /\ UNCHANGED <<state, loading, error, encryptedData, masterKey, dbVars, fileUri, files>>
    /\ Off
    /\ UNCHANGED <<lim, alert, opened, ed, rngDrawn, encLog, call>>

handleCreatePassword_Init(t) ==
    /\ At(t, "createPw", "init")
    /\ initDB
    /\ masterKey' = tasks[t].key
    /\ Goto(t, "export")
    /\ UNCHANGED <<state, loading, error, encryptedData, salt, fileUri, files>>
    /\ scen' = IF dbFile # Absent /\ LiveTable # EmptyTable
               THEN [Scen0 EXCEPT !.log = "freshStart"] ELSE Scen0
    /\ UNCHANGED <<lim, alert, opened, ed, rngDrawn, encLog, call>>

handleCreatePassword_Exported(t) ==
    /\ At(t, "createPw", "export")
    /\ performSync_Export(t, "write")
    /\ UNCHANGED <<appVars, fileUri, files>>
    /\ Off
    /\ UNCHANGED <<lim, alert, opened, ed>>

\* a handleCreatePassword that does not wait for performSync
InitialSyncDone_NotAwaited(t, ok) == TRUE

\* await performSync(derivedKey, s) returned: provider.write resolved
InitialSyncDone(t, ok) == ok /\ tasks[t].pc = "write"

\* provider.write resolved or rejected, or performSync threw before it
handleCreatePassword_Finish(t) ==
    /\ tasks[t].kind = "createPw" /\ tasks[t].pc \in {"write", "throw"}
    /\ \E ok \in BOOLEAN :
        /\ IF ok /\ tasks[t].pc = "write" THEN providerWrite(t) ELSE UNCHANGED files
        /\ IF InitialSyncDone(t, ok)
           THEN /\ state' = "READY" /\ opened' = Null /\ UNCHANGED error
                /\ Track(Only(t),
                     [Scen0 EXCEPT !.ph = 1, !.pw = tasks[t].pw, !.uri = tasks[t].uri])
           ELSE /\ error' = "createPw" /\ UNCHANGED <<state, opened>>
                /\ scen' = [Scen0 EXCEPT !.log = "createPw"]
    /\ UNCHANGED <<lim, alert, ed, rngDrawn, encLog, call>>
    /\ loading' = FALSE
    /\ Finish(t)
    /\ UNCHANGED <<encryptedData, masterKey, salt, dbVars, fileUri>>

(***************************************************************************)
(* EditorScreen (rendered in READY): saveNote, the Sync button, Logout     *)
(***************************************************************************)
\* saveNote up to the awaited runCommand; onSync is the handleSync of the
\* render that created saveNote, with that render's masterKey and salt
saveNote_Start ==
    /\ state = "READY" /\ db = "open" /\ HasFree
    /\ \E id \in NoteIds, title \in Texts, content \in Texts :
        tasks' = [tasks EXCEPT ![FreeSlot] =
            [Idle EXCEPT !.kind = "save", !.pc = "run", !.note = <<id, title, content>>,
                         !.key = masterKey, !.slt = salt, !.silent = TRUE]]
    /\ UNCHANGED <<appVars, dbVars, fileUri, files>>
    /\ Track(scen.ph = 1 /\ Quiet, scen)
    /\ UNCHANGED <<lim, alert, opened, ed, rngDrawn, encLog, call>>

\* runCommand resolved (or rejected: the handle was closed meanwhile), then
\* onSync(true): handleSync up to the awaited exportDB
saveNote_Saved(t) ==
    /\ At(t, "save", "run")
    /\ IF db = "open"
       THEN /\ runCommand(tasks[t].note)
            /\ IF tasks[t].key # Null /\ tasks[t].slt # Null
               THEN tasks' = [tasks EXCEPT ![t].kind = "sync", ![t].pc = "export",
                                           ![t].note = <<>>]
               ELSE Finish(t)
       ELSE UNCHANGED dbVars /\ Finish(t)
    /\ UNCHANGED <<appVars, fileUri, files>>
    /\ Track(scen.ph = 1 /\ db = "open", [scen EXCEPT !.ph = 2, !.note = tasks[t].note])
    /\ UNCHANGED <<lim, alert, opened, ed, rngDrawn, encLog, call>>

\* the Sync button: onSync(false)
handleSync_Start ==
    /\ state = "READY" /\ NoAlert /\ HasFree
    /\ masterKey # Null /\ salt # Null
    /\ loading' = TRUE
    /\ tasks' = [tasks EXCEPT ![FreeSlot] =
            [Idle EXCEPT !.kind = "sync", !.pc = "export",
                         !.key = masterKey, !.slt = salt, !.silent = FALSE]]
    /\ UNCHANGED <<state, error, encryptedData, masterKey, salt, dbVars, fileUri, files>>
    /\ Off
    /\ UNCHANGED <<lim, alert, opened, ed, rngDrawn, encLog, call>>

handleSync_Exported(t) ==
    /\ At(t, "sync", "export")
    /\ performSync_Export(t, "write")
    /\ UNCHANGED <<appVars, fileUri, files>>
    /\ Stay(2)
    /\ UNCHANGED <<lim, alert, opened, ed>>

\* a handleSync that alerts whatever its silent argument is
AlertAfterSync_IgnoresSilent(silent, ok) == IF ok THEN "syncOk" ELSE "syncFailed"

\* a handleSync whose catch block only logs
AlertAfterSync_SuccessOnly(silent, ok) == IF silent \/ ~ok THEN alert ELSE "syncOk"

\* the Alert.alert calls of handleSync: "Sync Successful (Local)" after the try
\* block (provider.isManaged() is false), 'Sync failed' in the catch block, both
\* under !silent
AlertAfterSync(silent, ok) ==
    IF silent THEN alert ELSE IF ok THEN "syncOk" ELSE "syncFailed"

\* provider.write resolved or rejected, or performSync threw before it; a
\* failure is logged, and alerted when the sync is not silent
handleSync_Finish(t) ==
    /\ tasks[t].kind = "sync" /\ tasks[t].pc \in {"write", "throw"}
    /\ \E ok \in BOOLEAN :
        /\ IF ok /\ tasks[t].pc = "write"
           THEN providerWrite(t)
           ELSE UNCHANGED files
        /\ alert' = AlertAfterSync(tasks[t].silent, ok /\ tasks[t].pc = "write")
        /\ IF ok /\ tasks[t].pc = "write"
           THEN Track(scen.ph = 2, [scen EXCEPT !.ph = 3])
           ELSE scen' = [Scen0 EXCEPT !.log = IF tasks[t].silent THEN "silentSync" ELSE "sync"]
    /\ UNCHANGED <<lim, opened, ed, rngDrawn, encLog, call>>
    /\ loading' = IF tasks[t].silent THEN loading ELSE FALSE
    /\ Finish(t)
    /\ UNCHANGED <<state, error, encryptedData, masterKey, salt, dbVars, fileUri>>

\* a button of the alert of handleSync ("Got it", "OK")
OnAlertDismiss ==
    /\ alert # ""
    /\ alert' = ""
    /\ UNCHANGED <<appVars, dbVars, fileUri, files, tasks>>
    /\ Off
    /\ UNCHANGED <<lim, opened, ed, rngDrawn, encLog, call>>

\* a logout that keeps the cached container
handleLogout_KeepsContainer ==
    /\ state = "READY" /\ NoAlert
    /\ masterKey' = Null
    /\ salt' = Null
    /\ state' = "WELCOME"
    /\ Track(scen.ph = 3, [scen EXCEPT !.ph = 4])
    /\ opened' = Null
    /\ tasks' = LoggedOut(tasks)
    /\ UNCHANGED <<loading, error, encryptedData, dbVars, fileUri, files>>
    /\ UNCHANGED <<lim, alert, ed, rngDrawn, encLog, call>>

handleLogout ==
    /\ state = "READY" /\ NoAlert
    /\ masterKey' = Null
    /\ salt' = Null
    /\ encryptedData' = Null
    /\ state' = "WELCOME"
    /\ tasks' = LoggedOut(tasks)
    /\ UNCHANGED <<loading, error, dbVars, fileUri, files>>
    /\ Track(scen.ph = 3, [scen EXCEPT !.ph = 4])
    /\ opened' = Null
    /\ UNCHANGED <<lim, alert, ed, rngDrawn, encLog, call>>

(***************************************************************************)
(* The specification                                                       *)
(***************************************************************************)
Next ==
    \/ OnCreate
    \/ OnCancel
    \/ OnErrorDismiss
    \/ handleOpen_Start
    \/ \E t \in TaskIds : handleOpen_Reset(t)
    \/ \E t \in TaskIds : handleOpen_Picked(t)
    \/ \E t \in TaskIds : handleOpen_Read(t)
    \/ handleCreateNew_Start
    \/ \E t \in TaskIds : handleCreateNew_Yield(t)
    \/ \E t \in TaskIds : handleCreateNew_Reset(t)
    \/ \E t \in TaskIds : handleCreateNew_Created(t)
    \/ UnlockScreen_handleSubmit
    \/ \E t \in TaskIds : handleUnlock_Start(t)
    \/ \E t \in TaskIds : handleUnlock_Decrypt(t)
    \/ \E t \in TaskIds : handleUnlock_Imported(t)
    \/ \E t \in TaskIds : handleUnlock_Failed(t)
    \/ \E t \in TaskIds : handleCreatePassword_Start(t)
    \/ \E t \in TaskIds : handleCreatePassword_Derive(t)
    \/ \E t \in TaskIds : handleCreatePassword_Init(t)
    \/ \E t \in TaskIds : handleCreatePassword_Exported(t)
    \/ \E t \in TaskIds : handleCreatePassword_Finish(t)
    \/ saveNote_Start
    \/ \E t \in TaskIds : saveNote_Saved(t)
    \/ handleSync_Start
    \/ \E t \in TaskIds : handleSync_Exported(t)
    \/ \E t \in TaskIds : handleSync_Finish(t)
    \/ handleLogout
    \/ OnAlertDismiss

Spec == Init /\ [][Next]_vars

SpecSeq == InitSeq /\ [][Next]_vars

SpecFiles == InitFiles /\ [][Next]_vars

SpecTaps == InitTaps /\ [][Next]_vars

SpecRng == InitRng /\ [][Next]_vars

\* the steps a handler takes on its own once it was started: a timer fires, an
\* awaited call returns or throws
Resume(t) ==
    \/ handleOpen_Reset(t) \/ handleOpen_Picked(t) \/ handleOpen_Read(t)
    \/ handleCreateNew_Yield(t) \/ handleCreateNew_Reset(t) \/ handleCreateNew_Created(t)
    \/ handleUnlock_Start(t) \/ handleUnlock_Decrypt(t)
    \/ handleUnlock_Imported(t) \/ handleUnlock_Failed(t)
    \/ handleCreatePassword_Start(t) \/ handleCreatePassword_Derive(t)
    \/ handleCreatePassword_Init(t) \/ handleCreatePassword_Exported(t)
    \/ handleCreatePassword_Finish(t)
    \/ saveNote_Saved(t)
    \/ handleSync_Exported(t) \/ handleSync_Finish(t)

\* every timer fires and every awaited platform call returns or throws; the
\* user is free to press nothing
Fairness == \A t \in TaskIds : WF_vars(Resume(t))

\* one handler at a time; one salt value, one text
InitLive == InitApp /\ lim = [tasks |-> 1, salts |-> 1, texts |-> 1, files |-> 1,
                              hist |-> FALSE, pws |-> NumPasswords, ivs |-> 1, taps |-> 1,
                              fresh |-> FALSE]

SpecLive == InitLive /\ [][Next]_vars /\ Fairness

\* one handler at a time; the first file holds a container, written under the
\* first password, whose payload is a damaged database file
InitDamaged ==
    /\ state = "WELCOME" /\ loading = FALSE /\ error = ""
    /\ encryptedData = Null /\ masterKey = Null /\ salt = Null
    /\ db = "null" /\ dbFile = Absent /\ wal = <<>>
    /\ fileUri = NoUri
    /\ files = [u \in Uris |->
                  IF u = 1 THEN Container(Rep(SaltLen, 1), DamagedImage,
                                          deriveKey(1, Rep(SaltLen, 1)), Rep(IvLen, 1))
                  ELSE <<>>]
    /\ tasks = [t \in TaskIds |-> Idle]
    /\ scen = Scen0 /\ alert = "" /\ opened = Null /\ ed = EdIdle
    /\ rngDrawn = {} /\ encLog = <<>> /\ call = NoCall
    /\ lim = [tasks |-> 1, salts |-> 1, texts |-> 1, files |-> NumFiles, hist |-> FALSE,
              pws |-> NumPasswords, ivs |-> 1, taps |-> 1, fresh |-> FALSE]

SpecDamaged == InitDamaged /\ [][Next]_vars

(***************************************************************************)
(* EditorScreen in detail: the note that is open, the auto-save effect and  *)
(* its timer, and every handler that writes to the store.  A handler is in  *)
(* ed.ops from the call of its store operation to the step that resumes     *)
(* after it.  The syncs these handlers start are the handleSync above.      *)
(***************************************************************************)
\* '' and the texts the user types
EdTexts == 0..lim.texts

\* the state after handleCreatePassword succeeded with password 1 on file 1
InitEditor ==
    /\ state = "READY"
    /\ loading = FALSE
    /\ error = ""
    /\ encryptedData = Null
    /\ salt = Rep(SaltLen, 1)
    /\ masterKey = deriveKey(1, Rep(SaltLen, 1))
    /\ db = "open"
    /\ dbFile = Image(EmptyTable)
    /\ wal = <<>>
    /\ fileUri = 1
    /\ files = [u \in Uris |->
                  IF u = 1 THEN Container(Rep(SaltLen, 1), Image(EmptyTable),
                                          deriveKey(1, Rep(SaltLen, 1)), Rep(IvLen, 1))
                  ELSE <<>>]
    /\ tasks = [t \in TaskIds |-> Idle]
    /\ scen = Scen0
    /\ alert = ""
    /\ opened = Null
    /\ ed = EdIdle
    /\ rngDrawn = {}
    /\ encLog = <<>>
    /\ call = NoCall
    /\ lim = [tasks |-> MaxTasks, salts |-> 1, texts |-> 1, files |-> 1, hist |-> FALSE,
              pws |-> 1, ivs |-> 1, taps |-> 1, fresh |-> FALSE]

\* title !== selectedNote.title || content !== selectedNote.content
Dirty(sel, title, content) == sel # <<>> /\ (title # sel[2] \/ content # sel[3])

\* an auto-save effect that returns no cleanup function
clearTimeout_Missing(timers, live) == timers

\* the cleanup of the auto-save effect: clearTimeout(timer), of the timer the
\* last run of the effect created, when that run created one
clearTimeout(timers, live) ==
    IF live /\ timers # <<>> THEN SubSeq(timers, 1, Len(timers) - 1) ELSE timers

\* the auto-save effect after a render that changed title, content or
\* selectedNote: the cleanup of the last run, then this run
AutoSaveEffect(e) ==
    LET cleaned == clearTimeout(e.timers, e.effLive) IN
    IF Dirty(e.sel, e.title, e.content)
    THEN [e EXCEPT !.timers = Append(cleaned, [sel |-> e.sel, title |-> e.title,
                                               content |-> e.content]),
                   !.effLive = TRUE]
    ELSE [e EXCEPT !.timers = cleaned, !.effLive = FALSE]

\* nothing of the screen is pending and the open note has no unsaved edit
EdQuiet ==
    /\ ed.timers = <<>> /\ ed.ops = <<>> /\ Quiet
    /\ ~Dirty(ed.sel, ed.title, ed.content)

\* history of an edit: it goes on with the burst when the timer of the burst is
\* pending, and starts a burst when nothing is pending
EditHist(e) ==
    IF ed.burst = "on" /\ ed.timers # <<>> /\ ed.ops = <<>> /\ Quiet
    THEN [e EXCEPT !.log = ""]
    ELSE IF EdQuiet
    THEN [e EXCEPT !.burst = "on", !.base = <<ed.title, ed.content>>, !.saves = 0,
                   !.syncs = 0, !.log = ""]
    ELSE [e EXCEPT !.burst = "off", !.base = <<>>, !.saves = 0, !.syncs = 0,
                   !.log = ""]

\* history of a step that is not part of a burst
NoBurst(e, what) ==
    [e EXCEPT !.burst = "off", !.base = <<>>, !.saves = 0, !.syncs = 0, !.log = what]

FreeSlots(tk) == { t \in Slots : tk[t].kind = "idle" }
\* a handler that starts one sync waits while MaxSyncs are in flight
SyncRoom == Cardinality(Slots \ FreeSlots(tasks)) < MaxSyncs
\* onSync(silent): handleSync up to the awaited exportDB, with the masterKey and
\* salt of the render; after is the write of handleBack the call follows (history)
onSync(tk, silent, after) ==
    LET t == CHOOSE f \in FreeSlots(tk) : \A g \in FreeSlots(tk) : f <= g IN
    [tk EXCEPT ![t] = [Idle EXCEPT !.kind = "sync", !.pc = "export", !.key = masterKey,
                                   !.slt = salt, !.silent = silent, !.note = after]]

\* history: a later write to note id ends what onSync recorded about it
Superseded(tk, id) ==
    [t \in TaskIds |-> IF tk[t].note # <<>> /\ tk[t].note[1] = id
                       THEN [tk[t] EXCEPT !.note = <<>>] ELSE tk[t]]

Op(kind, pc) == [kind |-> kind, pc |-> pc, sel |-> ed.sel, title |-> ed.title,
                 content |-> ed.content]
Without(q, k) == SubSeq(q, 1, k - 1) \o SubSeq(q, k + 1, Len(q))
EdRest == UNCHANGED <<state, error, encryptedData, masterKey, salt, fileUri, files,
                      lim, scen, alert, opened, rngDrawn, encLog, call>>

\* openNote(note), from the list
openNote ==
    /\ NoAlert /\ ed.sel = <<>>
    /\ \E id \in NoteIds :
        /\ LiveTable[id] # <<>>
        /\ ed' = NoBurst(AutoSaveEffect([ed EXCEPT !.sel = <<id>> \o LiveTable[id],
                                                  !.title = LiveTable[id][1],
                                                  !.content = LiveTable[id][2]]), "")
    /\ UNCHANGED <<loading, dbVars, tasks>> /\ EdRest

\* startCreate(type): a note with a new id, '' and ''
startCreate ==
    /\ NoAlert /\ ed.sel = <<>>
    /\ \E id \in NoteIds :
        /\ LiveTable[id] = <<>>
        /\ ed' = NoBurst(AutoSaveEffect([ed EXCEPT !.sel = <<id, 0, 0>>, !.title = 0,
                                                  !.content = 0]), "")
    /\ UNCHANGED <<loading, dbVars, tasks>> /\ EdRest

\* onChangeText={setTitle}
setTitle ==
    /\ NoAlert /\ ed.sel # <<>>
    /\ \E v \in EdTexts \ {ed.title} :
        /\ ed' = EditHist(AutoSaveEffect([ed EXCEPT !.title = v]))
        /\ Len(ed'.timers) <= MaxTimers
    /\ UNCHANGED <<loading, dbVars, tasks>> /\ EdRest

\* onChange={setContent}
setContent ==
    /\ NoAlert /\ ed.sel # <<>>
    /\ \E v \in EdTexts \ {ed.content} :
        /\ ed' = EditHist(AutoSaveEffect([ed EXCEPT !.content = v]))
        /\ Len(ed'.timers) <= MaxTimers
    /\ UNCHANGED <<loading, dbVars, tasks>> /\ EdRest

\* an auto-save timer fires: saveNote() of the render that set it, up to the
\* awaited runCommand
AutoSave_Fire ==
    /\ Len(ed.ops) < MaxOps
    /\ \E i \in 1..Len(ed.timers) :
        ed' = [ed EXCEPT !.timers = Without(ed.timers, i),
                         !.effLive = ed.effLive /\ i # Len(ed.timers),
                         !.ops = Append(ed.ops, [kind |-> "save", pc |-> "run",
                                                 sel |-> ed.timers[i].sel,
                                                 title |-> ed.timers[i].title,
                                                 content |-> ed.timers[i].content]),
                         !.saves = IF ed.burst = "on" THEN ed.saves + 1 ELSE 0,
                         !.log = ""]
    /\ UNCHANGED <<loading, dbVars, tasks>> /\ EdRest

\* saveNote after the awaited runCommand: setSelectedNote(updatedNote), onSync(true)
saveNote_Written ==
    /\ SyncRoom
    /\ \E k \in 1..Len(ed.ops) :
        /\ ed.ops[k].kind = "save"
        /\ LET o == ed.ops[k]
               n == <<o.sel[1], o.title, o.content>>
           IN  /\ runCommand(n)
               /\ ed' = [AutoSaveEffect([ed EXCEPT !.sel = n, !.ops = Without(ed.ops, k)])
                            EXCEPT !.syncs = IF ed.burst = "on" THEN ed.syncs + 1 ELSE 0,
                                   !.log = "saved"]
               /\ tasks' = onSync(Superseded(tasks, n[1]), TRUE, <<>>)
    /\ UNCHANGED loading /\ EdRest

\* a handleBack that leaves without saving
BackWaitsForSave_Never(dirty) == FALSE

\* handleBack: await saveNote() when title or content differs from selectedNote
BackWaitsForSave(dirty) == dirty

\* handleBack up to the awaited runCommand of saveNote, or, with nothing to
\* save, all of it
handleBack ==
    /\ NoAlert /\ ed.sel # <<>>
    /\ IF BackWaitsForSave(Dirty(ed.sel, ed.title, ed.content))
       THEN /\ Len(ed.ops) < MaxOps
            /\ ed' = NoBurst([ed EXCEPT !.ops = Append(ed.ops, Op("back", "run"))], "")
            /\ UNCHANGED tasks
       ELSE /\ SyncRoom
            /\ ed' = NoBurst(AutoSaveEffect([ed EXCEPT !.sel = <<>>]),
                             IF Dirty(ed.sel, ed.title, ed.content)
                             THEN "closedDirty" ELSE "closed")
            /\ tasks' = onSync(tasks, TRUE, <<>>)
    /\ UNCHANGED <<loading, dbVars>> /\ EdRest

\* handleBack after the awaited saveNote: the rest of saveNote (the write is
\* done, onSync(true)), then setSelectedNote(null) and onSync(true)
handleBack_Saved ==
    /\ Cardinality(FreeSlots(tasks)) >= 2
    /\ \E k \in 1..Len(ed.ops) :
        /\ ed.ops[k].kind = "back"
        /\ LET o == ed.ops[k]
               n == <<o.sel[1], o.title, o.content>>
           IN  /\ runCommand(n)
               /\ ed' = NoBurst(AutoSaveEffect([ed EXCEPT !.sel = <<>>,
                                                         !.ops = Without(ed.ops, k)]),
                                "closedDirty")
               /\ tasks' = onSync(onSync(Superseded(tasks, n[1]), TRUE, n), TRUE, <<>>)
    /\ UNCHANGED loading /\ EdRest

\* handleDrawingSave(signature) up to the runCommand it calls
handleDrawingSave ==
    /\ NoAlert /\ ed.sel # <<>> /\ Len(ed.ops) < MaxOps
    /\ \E v \in EdTexts :
        /\ ed' = NoBurst(AutoSaveEffect(
                    [ed EXCEPT !.content = v,
                               !.ops = Append(ed.ops, [Op("drawing", "run")
                                                          EXCEPT !.content = v])]),
                    "")
        /\ Len(ed'.timers) <= MaxTimers
    /\ UNCHANGED <<loading, dbVars, tasks>> /\ EdRest

\* the then() of handleDrawingSave: setSelectedNote(updatedNote), onSync(true)
handleDrawingSave_Written ==
    /\ SyncRoom
    /\ \E k \in 1..Len(ed.ops) :
        /\ ed.ops[k].kind = "drawing"
        /\ LET o == ed.ops[k]
               n == <<o.sel[1], o.title, o.content>>
           IN  /\ runCommand(n)
               /\ ed' = NoBurst(AutoSaveEffect([ed EXCEPT !.sel = n,
                                                         !.ops = Without(ed.ops, k)]),
                                "drawingSaved")
               /\ Len(ed'.timers) <= MaxTimers
               /\ tasks' = onSync(Superseded(tasks, n[1]), TRUE, <<>>)
    /\ UNCHANGED loading /\ EdRest

\* togglePin up to the awaited runCommand: setSelectedNote(updatedNote), a new
\* object with the same title and content, so the auto-save effect runs again
togglePin ==
    /\ NoAlert /\ ed.sel # <<>> /\ Len(ed.ops) < MaxOps
    /\ ed' = NoBurst(AutoSaveEffect([ed EXCEPT !.ops = Append(ed.ops, Op("pin", "run"))]),
                     "")
    /\ UNCHANGED <<loading, dbVars, tasks>> /\ EdRest

\* togglePin after the awaited runCommand: onSync(true)
togglePin_Written ==
    /\ SyncRoom
    /\ \E k \in 1..Len(ed.ops) :
        /\ ed.ops[k].kind = "pin"
        /\ runCommand_Pin
        /\ ed' = NoBurst([ed EXCEPT !.ops = Without(ed.ops, k)], "pinned")
        /\ tasks' = onSync(tasks, TRUE, <<>>)
    /\ UNCHANGED loading /\ EdRest

\* handleBulkPin and onDragEnd, from the list, up to the awaited runCommand
\* (the notes selected, or pinned, are the ones with a row)
handleBulkPin ==
    /\ NoAlert /\ ed.sel = <<>> /\ Len(ed.ops) < MaxOps
    /\ LiveTable # EmptyTable
    /\ \E kind \in {"bulkPin", "reorder"} :
        ed' = NoBurst([ed EXCEPT !.ops = Append(ed.ops, Op(kind, "run"))], "")
    /\ UNCHANGED <<loading, dbVars, tasks>> /\ EdRest

\* handleBulkPin after its runCommand: the call of loadNotes
handleBulkPin_Written ==
    /\ \E k \in 1..Len(ed.ops) :
        /\ ed.ops[k].kind = "bulkPin" /\ ed.ops[k].pc = "run"
        /\ runCommand_Pin
        /\ ed' = NoBurst([ed EXCEPT !.ops[k].pc = "load"], "")
    /\ UNCHANGED <<loading, tasks>> /\ EdRest

\* handleBulkPin after the awaited loadNotes: onSync(true)
handleBulkPin_Loaded ==
    /\ SyncRoom
    /\ \E k \in 1..Len(ed.ops) :
        /\ ed.ops[k].kind = "bulkPin" /\ ed.ops[k].pc = "load"
        /\ ed' = NoBurst([ed EXCEPT !.ops = Without(ed.ops, k)], "bulkPinned")
        /\ tasks' = onSync(tasks, TRUE, <<>>)
    /\ UNCHANGED <<loading, dbVars>> /\ EdRest

\* onDragEnd after its runCommand: onSync(true)
onDragEnd_Written ==
    /\ SyncRoom
    /\ \E k \in 1..Len(ed.ops) :
        /\ ed.ops[k].kind = "reorder"
        /\ runCommand_Pin
        /\ ed' = NoBurst([ed EXCEPT !.ops = Without(ed.ops, k)], "reordered")
        /\ tasks' = onSync(tasks, TRUE, <<>>)
    /\ UNCHANGED loading /\ EdRest

\* the Delete button of the confirmation of handleDelete (the open note) or of
\* handleBulkDelete (the notes selected in the list), up to the awaited deleteNote
handleDelete ==
    /\ NoAlert /\ Len(ed.ops) < MaxOps
    /\ \E id \in NoteIds :
        /\ IF ed.sel # <<>> THEN id = ed.sel[1] ELSE LiveTable[id] # <<>>
        /\ ed' = NoBurst([ed EXCEPT !.ops = Append(ed.ops,
                            [Op(IF ed.sel # <<>> THEN "delete" ELSE "bulkDelete", "run")
                                EXCEPT !.sel = <<id, 0, 0>>])], "")
    /\ UNCHANGED <<loading, dbVars, tasks>> /\ EdRest

\* after the awaited deleteNote: the call of loadNotes
handleDelete_Deleted ==
    /\ \E k \in 1..Len(ed.ops) :
        /\ ed.ops[k].kind \in {"delete", "bulkDelete"} /\ ed.ops[k].pc = "run"
        /\ deleteNote(ed.ops[k].sel[1])
        /\ ed' = NoBurst([ed EXCEPT !.ops[k].pc = "load"], "")
        /\ tasks' = Superseded(tasks, ed.ops[k].sel[1])
    /\ UNCHANGED loading /\ EdRest

\* after the awaited loadNotes: setSelectedNote(null) (handleDelete) and
\* onSync(), whose silent is false: setLoading(true)
handleDelete_Loaded ==
    /\ SyncRoom
    /\ \E k \in 1..Len(ed.ops) :
        /\ ed.ops[k].kind \in {"delete", "bulkDelete"} /\ ed.ops[k].pc = "load"
        /\ ed' = NoBurst(AutoSaveEffect(
                    [ed EXCEPT !.sel = IF ed.ops[k].kind = "delete" THEN <<>> ELSE ed.sel,
                               !.ops = Without(ed.ops, k)]),
                    IF ed.ops[k].kind = "delete" THEN "deleted" ELSE "bulkDeleted")
        /\ Len(ed'.timers) <= MaxTimers
        /\ tasks' = onSync(tasks, FALSE, <<>>)
    /\ loading' = TRUE
    /\ UNCHANGED dbVars /\ EdRest

NextEditor ==
    \/ openNote
    \/ startCreate
    \/ setTitle
    \/ setContent
    \/ AutoSave_Fire
    \/ saveNote_Written
    \/ handleBack
    \/ handleBack_Saved
    \/ handleDrawingSave
    \/ handleDrawingSave_Written
    \/ togglePin
    \/ togglePin_Written
    \/ handleBulkPin
    \/ handleBulkPin_Written
    \/ handleBulkPin_Loaded
    \/ onDragEnd_Written
    \/ handleDelete
    \/ handleDelete_Deleted
    \/ handleDelete_Loaded
    \/ \E t \in TaskIds : handleSync_Exported(t)
    \/ \E t \in TaskIds : handleSync_Finish(t)
    \/ OnAlertDismiss

SpecEditor == InitEditor /\ [][NextEditor]_vars

(***************************************************************************)
(* crypto.ts on its own: deriveKey, encryptData and decryptData applied to *)
(* arguments drawn from bounded sets.                                      *)
(***************************************************************************)
\* a buffer of n bytes: v, 2v, 3v, ... modulo 256
Buf(n, v) == [i \in 1..n |-> (v * i) % ByteMod]
\* lengths around the block size, and bytes that look like padding or wrap
PlainLens == {0, 1, BlockSize - 1, BlockSize, BlockSize + 1, 2 * BlockSize}
PlainSeeds == {0, 1, BlockSize, ByteMod - 1}
PlainValues == { Buf(n, v) : n \in PlainLens, v \in PlainSeeds }

InitCrypto ==
    /\ InitCells
    /\ lim = [tasks |-> 1, salts |-> NumSalts, texts |-> 1, files |-> 1, hist |-> FALSE,
              pws |-> NumPasswords, ivs |-> NumIVs, taps |-> 1, fresh |-> FALSE]
    /\ \E P \in PlainValues, W \in Passwords, s \in SaltValues(NumSalts), iv \in IVValues(NumIVs) :
          call = [pc |-> "deriveKey", P |-> P, W |-> W, salt |-> s, iv |-> iv]

CryptoRest == UNCHANGED <<state, loading, error, encryptedData, masterKey, salt,
                          db, dbFile, wal, fileUri, files, tasks, lim, scen,
                          alert, opened, ed, rngDrawn, encLog>>

\* const key = await deriveKey(W, salt)
Call_deriveKey ==
    /\ call.pc = "deriveKey"
    /\ call' = [pc |-> "encryptData", P |-> call.P, W |-> call.W, salt |-> call.salt,
                iv |-> call.iv, key |-> deriveKey(call.W, call.salt)]
    /\ CryptoRest

\* const enc = await encryptData(P, key), getRandomBytesAsync returning call.iv
Call_encryptData ==
    /\ call.pc = "encryptData"
    /\ call' = [pc |-> "decryptData", P |-> call.P, W |-> call.W, salt |-> call.salt,
                iv |-> call.iv, key |-> call.key,
                enc |-> encryptData(call.P, call.key, call.iv)]
    /\ CryptoRest

\* const out = await decryptData(enc, await deriveKey(W, salt))
Call_decryptData ==
    /\ call.pc = "decryptData"
    /\ call' = [pc |-> "done", P |-> call.P, W |-> call.W, salt |-> call.salt,
                iv |-> call.iv, key |-> call.key, enc |-> call.enc,
                out |-> decryptData(call.enc, deriveKey(call.W, call.salt))]
    /\ CryptoRest

NextCrypto == Call_deriveKey \/ Call_encryptData \/ Call_decryptData

SpecCrypto == InitCrypto /\ [][NextCrypto]_vars

(***************************************************************************)
(* SafProvider.ts on its own: the two provider classes of the file, the    *)
(* direct-handle one ('Secure Cloud Storage', lines 5-80) and the          *)
(* directory one ('Android SAF', lines 82-158).  A provider is its fileUri;*)
(* the platform either serves a file or rejects the call on it.            *)
(***************************************************************************)
Variants == {"direct", "directory"}
\* the bytes written in this section
WriteValues == {<<>>, <<1>>, <<2>>}

\* read() of the direct-handle provider: null without a file, the bytes, or
\* the platform's error rethrown
read_Direct(uri, served, bytes) ==
    IF uri = NoUri THEN [kind |-> "null"]
    ELSE IF served THEN [kind |-> "bytes", bytes |-> bytes]
    ELSE [kind |-> "error"]

\* read() of the directory provider: null without a file, the bytes, or null
\* from the catch block
read_Directory(uri, served, bytes) ==
    IF uri = NoUri THEN [kind |-> "null"]
    ELSE IF served THEN [kind |-> "bytes", bytes |-> bytes]
    ELSE [kind |-> "null"]

read(variant, uri, served, bytes) ==
    IF variant = "direct" THEN read_Direct(uri, served, bytes)
    ELSE read_Directory(uri, served, bytes)

\* write(data) of either provider: 'No file selected', or the platform's
\* outcome
write(variant, uri, served) ==
    IF uri = NoUri THEN [kind |-> "error"]
    ELSE IF served THEN [kind |-> "ok"]
    ELSE [kind |-> "error"]

InitProvider ==
    /\ InitCells
    /\ lim = [tasks |-> 1, salts |-> 1, texts |-> 1, files |-> NumFiles, hist |-> FALSE,
              pws |-> 1, ivs |-> 1, taps |-> 1, fresh |-> FALSE]
    /\ \E v \in Variants, broken \in SUBSET Uris :
          call = [pc |-> "provider", variant |-> v, fileUri |-> NoUri, broken |-> broken,
                  content |-> [u \in Uris |-> <<>>], op |-> "-", result |-> [kind |-> "-"]]

\* selectFile(uri), or the uri that pickFile / createNewFile stored
Provider_selectFile ==
    /\ call.pc = "provider"
    /\ \E u \in Uris :
          call' = [call EXCEPT !.fileUri = u, !.op = "selectFile", !.result = [kind |-> "-"]]
    /\ CryptoRest

Provider_read ==
    /\ call.pc = "provider"
    /\ LET u == call.fileUri
           served == u # NoUri /\ u \notin call.broken
           bytes == IF u = NoUri THEN <<>> ELSE call.content[u]
       IN  call' = [call EXCEPT !.op = "read",
                                !.result = read(call.variant, u, served, bytes)]
    /\ CryptoRest

Provider_write ==
    /\ call.pc = "provider"
    /\ \E data \in WriteValues :
        LET u == call.fileUri
            served == u # NoUri /\ u \notin call.broken
            res == write(call.variant, u, served)
        IN  call' = [call EXCEPT !.op = "write", !.result = res,
                         !.content = IF res.kind = "ok"
                                     THEN [call.content EXCEPT ![u] = data]
                                     ELSE call.content]
    /\ CryptoRest

NextProvider == Provider_selectFile \/ Provider_read \/ Provider_write

SpecProvider == InitProvider /\ [][NextProvider]_vars

(***************************************************************************)
(* Claims                                                                  *)
(***************************************************************************)
Busy(t) == ~IsFree(t)
Ends(t) == Busy(t) /\ tasks'[t].kind = "idle"

\* C1: whenever no handler is mid-execution, masterKey and salt are both
\* null or both non-null.
C1_KeyAndSaltTogether == Quiet => ((masterKey = Null) <=> (salt = Null))

\* the tables the store can hold, and the containers performSync produces
\* from them under password w
Rows == {<<>>} \cup ((1..NumTexts) \X (1..NumTexts))
Tables == [NoteIds -> Rows]
ProducedWith(w) ==
    { Container(s, Image(tb), deriveKey(w, s), iv) :
        s \in SaltValues(NumSalts), tb \in Tables, iv \in IVValues(NumIVs) }
WrongPassword(t) ==
    \E w \in Passwords : w # tasks[t].pw /\ tasks[t].enc \in ProducedWith(w)

\* C2: a handleUnlock whose password differs from the password the container
\* was produced with never passes the header check: it never calls importDB
\* and never sets READY.
C2_WrongPasswordRejected ==
    \A t \in TaskIds : At(t, "unlock", "import") => ~WrongPassword(t)

\* C2 witness: a handleUnlock with another password than the container's
\* was rejected and is running its catch block
C2_Witness ==
    \E t \in TaskIds : At(t, "unlock", "failReset") /\ WrongPassword(t) /\ error = "unlock"

\* C3: create with password W, save a note, the sync completes, logout,
\* re-open the same file, unlock with W: the state is READY and the store
\* holds the note with the same title and content.
C3_CreateSaveSyncReopenUnlock ==
    /\ scen.ph = 5 => state = "UNLOCK"
    /\ scen.ph = 6 =>
        /\ state = "READY"
        /\ db = "open"
        /\ LiveTable[scen.note[1]] = <<scen.note[2], scen.note[3]>>

\* C3 witness: the scenario ran to its end, with a note whose title and
\* content differ
C3_Witness == scen.ph = 6 /\ scen.note[2] # scen.note[3]

\* C4: a handleUnlock that fails the header check ends with an error shown,
\* the state still UNLOCK, masterKey and salt null and the local store reset.
C4_FailedUnlockDiscardsSession ==
    [][\A t \in TaskIds :
        (At(t, "unlock", "failReset") /\ Ends(t)) =>
            /\ error' # ""
            /\ state' = "UNLOCK"
            /\ masterKey' = Null
            /\ salt' = Null
            /\ db' = "null"
            /\ dbFile' = Absent]_vars

\* the step in which handler t ends on a failure
FailedEnd(t) ==
    /\ Ends(t)
    /\ \/ tasks[t].kind \in {"open", "createNew", "createPw"} /\ error' # ""
       \/ At(t, "unlock", "failReset")

\* C5: a handler that fails before READY ends in WELCOME with an error
\* message set and with masterKey and salt both null.
C5_FailureEndsInWelcome ==
    [][\A t \in TaskIds :
        FailedEnd(t) =>
            /\ state' = "WELCOME"
            /\ error' # ""
            /\ masterKey' = Null
            /\ salt' = Null]_vars

\* the transitions of the state machine, with Cancel
Edges ==
    { <<"WELCOME", "CREATE_DB_NAME">>, <<"WELCOME", "UNLOCK">>,
      <<"WELCOME", "CREATE_PASSWORD">>, <<"CREATE_DB_NAME", "CREATE_PASSWORD">>,
      <<"CREATE_DB_NAME", "WELCOME">>, <<"UNLOCK", "WELCOME">>,
      <<"CREATE_PASSWORD", "WELCOME">>, <<"UNLOCK", "READY">>,
      <<"CREATE_PASSWORD", "READY">>, <<"READY", "WELCOME">> }

\* C6: every change of the state is a transition of the state machine; READY
\* is entered from UNLOCK or CREATE_PASSWORD only.
C6_StateMachine == [][state' # state => <<state, state'>> \in Edges]_vars

\* C7: in WELCOME there is no key, no salt and no open store.
C7_WelcomeHoldsNothing ==
    state = "WELCOME" => (masterKey = Null /\ salt = Null /\ db = "null")

\* C8: the step from READY to WELCOME, which is handleLogout, leaves
\* masterKey, salt and encryptedData null.
C8_LogoutClearsSession ==
    [][(state = "READY" /\ state' = "WELCOME") =>
        (masterKey' = Null /\ salt' = Null /\ encryptedData' = Null)]_vars

\* C8 witness: handleLogout ran from READY, after a completed sync
C8_Witness ==
    /\ scen.ph = 4
    /\ state = "WELCOME" /\ masterKey = Null /\ salt = Null /\ encryptedData = Null

\* the store operation handler t is in, if any
InStoreOp(t) ==
    \/ tasks[t].kind \in {"open", "createNew"} /\ tasks[t].pc = "reset"
    \/ tasks[t].kind = "unlock" /\ tasks[t].pc \in {"import", "failReset"}
    \/ tasks[t].kind = "createPw" /\ tasks[t].pc \in {"init", "export"}
    \/ tasks[t].kind = "sync" /\ tasks[t].pc = "export"
    \/ tasks[t].kind = "save" /\ tasks[t].pc = "run"

\* C9: no two store operations are in flight at the same time.
C9_StoreOpsSerialized == Cardinality({ t \in TaskIds : InStoreOp(t) }) <= 1

\* C10: at most one handleUnlock or handleCreatePassword is pending or in
\* flight, counting the submissions whose timer has not fired yet.
C10_SingleUnlockAttempt ==
    Cardinality({ t \in TaskIds : tasks[t].kind \in {"unlock", "createPw"} }) <= 1

\* C11: a silent sync that fails is only logged: the step that runs its catch
\* block shows no alert, leaves loading and the error as they are, and leaves the
\* state (READY), masterKey and salt unchanged.
C11_SilentSyncFailureOnlyLogged ==
    [][scen'.log = "silentSync" =>
        /\ alert' = alert
        /\ loading' = loading
        /\ error' = error
        /\ state' = state
        /\ masterKey' = masterKey
        /\ salt' = salt]_vars

\* C11 witness: a silent sync has just failed in READY; nothing is shown and the
\* store is open under the session's key
C11_Witness ==
    /\ scen.log = "silentSync"
    /\ state = "READY" /\ alert = "" /\ masterKey # Null /\ salt # Null /\ db = "open"

\* C12: an explicit sync that fails shows the 'Sync failed' alert, sets loading
\* to false and leaves the state (READY) unchanged.
C12_ExplicitSyncFailureSurfaced ==
    [][scen'.log = "sync" =>
        /\ alert' = "syncFailed"
        /\ loading' = FALSE
        /\ state' = state]_vars

\* C12 witness: an explicit sync has just failed in READY and the alert is shown
C12_Witness ==
    /\ scen.log = "sync"
    /\ state = "READY" /\ alert = "syncFailed" /\ ~loading

\* the step in which handleOpen t gets the result of provider.read()
OpenRead(t) == At(t, "open", "read") /\ Ends(t)

\* C13 as stated: a zero-byte file leads to CREATE_PASSWORD with no container
\* bytes cached (encryptedData null); a file of at least one byte leads to UNLOCK
\* with its bytes in encryptedData.
C13_EmptyFileNothingCached ==
    [][\A t \in TaskIds :
        /\ (OpenRead(t) /\ scen'.log = "openEmpty") =>
                (state' = "CREATE_PASSWORD" /\ encryptedData' = Null)
        /\ (OpenRead(t) /\ scen'.log = "openData") =>
                (state' = "UNLOCK" /\ encryptedData' = files[tasks[t].uri])]_vars

\* C13 amended: a zero-byte file leads to CREATE_PASSWORD and handleOpen caches
\* nothing: encryptedData keeps the value it had (null, or the bytes an earlier
\* handleOpen cached before its unlock was cancelled); a file of at least one
\* byte leads to UNLOCK with its bytes in encryptedData.
C13_EmptyFileTreatedAsNew ==
    [][\A t \in TaskIds :
        /\ (OpenRead(t) /\ scen'.log = "openEmpty") =>
                /\ files[tasks[t].uri] = <<>>
                /\ state' = "CREATE_PASSWORD"
                /\ encryptedData' = encryptedData
        /\ (OpenRead(t) /\ scen'.log = "openData") =>
                /\ files[tasks[t].uri] # <<>>
                /\ state' = "UNLOCK"
                /\ encryptedData' = files[tasks[t].uri]]_vars

\* C13 witness: handleOpen has just read a zero-byte file and the password is
\* to be created
C13_Witness ==
    /\ scen.log = "openEmpty"
    /\ state = "CREATE_PASSWORD" /\ fileUri # NoUri /\ files[fileUri] = <<>>

\* C14: when provider.read() fails, the open error is shown and the state stays
\* WELCOME; nothing is cached.
C14_FailedReadStaysInWelcome ==
    [][\A t \in TaskIds :
        (OpenRead(t) /\ scen'.log = "open") =>
            /\ error' = "open"
            /\ state' = "WELCOME"
            /\ encryptedData' = encryptedData]_vars

\* C14 witness: handleOpen has just failed to read the file it picked
C14_Witness ==
    /\ scen.log = "open"
    /\ state = "WELCOME" /\ error = "open" /\ fileUri # NoUri /\ ~loading

\* C15: handleCreatePassword sets READY only at the end of a performSync whose
\* provider.write resolved, after generateSalt, deriveKey and initDB: the salt and
\* the key of the session are the generated salt and the key derived from it, the
\* store is open, and the file holds salt || encrypted image of the new, empty
\* store.  When the initial sync fails the state is left as it was, not READY.
C15_ReadyAfterInitialSync ==
    [][\A t \in TaskIds :
        (tasks[t].kind = "createPw" /\ Ends(t)) =>
            IF scen'.log = "createPw"
            THEN state' = state /\ state' # "READY"
            ELSE /\ state' = "READY"
                 /\ tasks[t].pc = "write"
                 /\ tasks[t].slt \in generateSalt /\ salt' = tasks[t].slt
                 /\ tasks[t].key = deriveKey(tasks[t].pw, tasks[t].slt)
                 /\ masterKey' = tasks[t].key
                 /\ db' = "open"
                 /\ SliceTo(files'[tasks[t].uri], SaltLen) = tasks[t].slt
                 /\ decryptData(SliceFrom(files'[tasks[t].uri], SaltLen), tasks[t].key)
                        = [ok |-> TRUE, bytes |-> Image(EmptyTable)]]_vars

\* C15 witness: handleCreatePassword has just set READY and the file holds the
\* container it wrote
C15_Witness ==
    /\ scen.ph = 1 /\ state = "READY" /\ Quiet
    /\ LiveTable = EmptyTable
    /\ files[scen.uri] # <<>> /\ SliceTo(files[scen.uri], SaltLen) = salt

\* C16: while the session unlocked from a container lasts, every file write
\* leaves a container that begins with the 16 salt bytes of that container, and
\* the session's salt stays the one read from it; a salt that is not read from
\* a container comes from generateSalt, in handleCreatePassword only.
C16_SaltNeverRegenerated ==
    [][/\ (opened # Null /\ opened' # Null) =>
            /\ salt' = opened
            /\ \A u \in Uris : files'[u] # files[u] => SliceTo(files'[u], SaltLen) = opened
       /\ (salt' # salt /\ salt' # Null) =>
            \E t \in TaskIds :
                \/ At(t, "createPw", "yield") /\ tasks'[t].pc = "init"
                \/ /\ At(t, "unlock", "yield")
                   /\ salt' = SliceTo(tasks[t].enc, SaltLen)]_vars

\* C17: no two calls of encryptData under the same key put the same IV in front
\* of their result, and two calls with the same key and the same plaintext (a
\* repeated sync of an unchanged store) return different bytes.
C17_FreshIvPerEncryption ==
    \A i \in 1..Len(encLog) : \A j \in 1..Len(encLog) :
        (i < j /\ encLog[i].key = encLog[j].key) =>
            /\ SliceTo(encLog[i].out, IvLen) # SliceTo(encLog[j].out, IvLen)
            /\ encLog[i].out # encLog[j].out
            /\ SliceFrom(encLog[i].out, IvLen) # SliceFrom(encLog[j].out, IvLen)

\* C17 witness: the same store image has been encrypted twice under one key
C17_Witness ==
    \E i \in 1..Len(encLog) : \E j \in 1..Len(encLog) :
        /\ i < j
        /\ encLog[i].key = encLog[j].key
        /\ encLog[i].data = encLog[j].data

\* the burst of edits is over: no timer, no handler and no sync is pending
BurstOver == ed.burst = "on" /\ ed.timers = <<>> /\ ed.ops = <<>> /\ Quiet

\* C18 as stated: at most one auto-save timer is pending, and a burst of edits,
\* each made while the timer of the one before is pending, has led to exactly
\* one saveNote and one sync when it is over.
C18_OneSavePerBurst ==
    /\ Len(ed.timers) <= 1
    /\ BurstOver => (ed.saves = 1 /\ ed.syncs = 1)

\* C18 amended: at most one auto-save timer is pending; nothing is saved while
\* the timer of the burst is pending; when the burst is over it has led to one
\* saveNote, of the title and content of the last edit, and one sync, unless the
\* last edit restored the title and content the note had before the burst: then
\* the timer was cleared and nothing was saved or synchronized.
C18_OneSavePerChangingBurst ==
    /\ Len(ed.timers) <= 1
    /\ (ed.burst = "on" /\ ed.timers # <<>>) => (ed.saves = 0 /\ ed.syncs = 0)
    /\ BurstOver =>
        IF <<ed.title, ed.content>> = ed.base
        THEN ed.saves = 0 /\ ed.syncs = 0
        ELSE /\ ed.saves = 1 /\ ed.syncs = 1
             /\ LiveTable[ed.sel[1]] = <<ed.title, ed.content>>

\* C18 witness: a burst of at least two edits is over and was saved once
C18_Witness ==
    /\ BurstOver /\ ed.saves = 1 /\ ed.syncs = 1
    /\ ed.title # ed.base[1] /\ ed.content # ed.base[2]

Mutated == {"saved", "closedDirty", "drawingSaved", "pinned", "bulkPinned", "reordered",
            "deleted", "bulkDeleted"}

\* C20: the step that ends a note mutation (save, drawing save, pin, bulk pin,
\* reorder, delete, bulk delete) starts a sync in silent mode: a handleSync
\* with silent = true, which leaves loading alone.
C20_MutationsSyncSilently ==
    [][(ed' # ed /\ ed'.log \in Mutated) =>
            /\ \E t \in TaskIds :
                IsFree(t) /\ tasks'[t].kind = "sync" /\ tasks'[t].silent
            /\ loading' = loading]_vars

\* C21: when the user leaves the file dialog without a file (pickFile returns
\* null in handleOpen, createFile returns null in handleCreateNew), no error
\* message is set and the state is the one before the pick.
C21_PickCanceledIsSilent ==
    [][scen'.log = "canceled" => (error' = "" /\ state' = state)]_vars

\* the same for handleOpen alone
C21_OpenCanceledIsSilent ==
    [][(scen'.log = "canceled" /\ \E t \in TaskIds : At(t, "open", "pick"))
            => (error' = "" /\ state' = state /\ loading' = FALSE)]_vars

\* C22: for every plaintext buffer P, password W, salt and IV,
\* decryptData(encryptData(P, deriveKey(W, salt)), deriveKey(W, salt)) = P.
C22_DecryptInvertsEncrypt ==
    call.pc = "done" => (call.out.ok /\ call.out.bytes = call.P)

\* a round trip of a buffer of two blocks whose last byte looks like padding
C22_Witness ==
    /\ call.pc = "done"
    /\ Len(call.P) = 2 * BlockSize
    /\ call.P[Len(call.P)] # 0
    /\ Len(call.enc) = IvLen + 3 * BlockSize
    /\ call.out.bytes = call.P

C24_DamagedImageFailsLikeBadPassword ==
    [][\A t \in TaskIds :
          (/\ tasks[t].kind = "unlock"
           /\ tasks[t].pc \in {"import", "failReset"}
           /\ isValid(tasks[t].data) /\ ~WellFormed(tasks[t].data)
           /\ tasks'[t] # tasks[t])
          => /\ state' = state /\ state' # "READY" /\ masterKey' = masterKey
             /\ tasks[t].pc = "import" =>
                    (error' = "unlock" /\ tasks'[t].pc = "failReset")
             /\ tasks[t].pc = "failReset" =>
                    /\ error' = error /\ IsFree(t)' /\ ~loading'
                    /\ db' = "null" /\ dbFile' = Absent /\ wal' = <<>>]_vars

\* the same for the outcome in which openDatabaseAsync rejects the damaged file
C24_RejectedOpenEndsLikeBadPassword ==
    [][\A t \in TaskIds :
          (/\ tasks[t].kind = "unlock"
           /\ tasks[t].pc \in {"import", "failReset"}
           /\ isValid(tasks[t].data) /\ ~WellFormed(tasks[t].data)
           /\ tasks'[t] # tasks[t]
           /\ ~IsFree(t)' \/ tasks[t].pc = "failReset")
          => /\ state' = state /\ state' # "READY" /\ masterKey' = masterKey
             /\ tasks[t].pc = "import" =>
                    (error' = "unlock" /\ tasks'[t].pc = "failReset")
             /\ tasks[t].pc = "failReset" =>
                    /\ error' = error /\ IsFree(t)' /\ ~loading'
                    /\ db' = "null" /\ dbFile' = Absent /\ wal' = <<>>]_vars

\* the task holds a container made of its salt, its key and the image
Holds(task, image) ==
    \E iv \in IVValues(lim.ivs) :
        task.data = Container(task.slt, image, task.key, iv)

C26_NullOnlyWithoutFile ==
    /\ (call.pc = "provider" /\ call.op = "read") =>
          /\ call.result.kind = "null" <=> call.fileUri = NoUri
          /\ (call.fileUri # NoUri /\ call.fileUri \in call.broken) =>
                call.result.kind = "error"
    /\ (call.pc = "provider" /\ call.op = "write") =>
          ((call.fileUri = NoUri \/ call.fileUri \in call.broken) =>
                call.result.kind = "error")

\* the same for the direct-handle provider alone, and for write() of both
C26_DirectProviderNullOnlyWithoutFile ==
    /\ (call.pc = "provider" /\ call.op = "read" /\ call.variant = "direct") =>
          /\ call.result.kind = "null" <=> call.fileUri = NoUri
          /\ (call.fileUri # NoUri /\ call.fileUri \in call.broken) =>
                call.result.kind = "error"
    /\ (call.pc = "provider" /\ call.op = "write") =>
          ((call.fileUri = NoUri \/ call.fileUri \in call.broken) <=>
                call.result.kind = "error")

\* C27: a performSync started in one session never exports the store of, or
\* writes into the file of, a session opened after handleLogout: a sync that
\* was running at handleLogout and when a file was selected after it does not
\* get as far as exporting the store and calling provider.write.
C27_SyncStaysInItsSession ==
    [][\A t \in TaskIds :
          (tasks[t].stale = "yes" /\ tasks[t].pc = "export") => tasks'[t].pc # "write"]_vars

\* the file of task t holds the store as it is now, under the task's key and salt
UpToDate(t, fs) ==
    \E iv \in IVValues(lim.ivs) :
        fs[tasks[t].uri] = Container(tasks[t].slt, Image(LiveTable), tasks[t].key, iv)

\* C28: when overlapping synchronizations have all completed and nothing was
\* changed since, the container in the file is the encryption of the latest
\* committed store: the sync that completes last does not replace a container
\* that holds the latest store by an older export.
C28_LastWriteIsLatestExport ==
    [][\A t \in TaskIds :
          (/\ At(t, "sync", "write") /\ Only(t) /\ IsFree(t)'
           /\ state = "READY" /\ db = "open"
           /\ UpToDate(t, files))
          => UpToDate(t, files')]_vars

\* C29: whenever the state is READY the local store is open, with its working
\* file present, and masterKey and salt are both set; no resetDB of a handler
\* that fails late runs in READY.
C29_ReadyHasStoreAndKey ==
    state = "READY" =>
        (db = "open" /\ dbFile # Absent /\ masterKey # Null /\ salt # Null)

\* handleOpen, handleCreateNew, handleUnlock, handleCreatePassword, or a
\* handleSync that is not silent
ShowsLoading(t) ==
    \/ tasks[t].kind \in {"open", "createNew", "unlock", "createPw"}
    \/ tasks[t].kind = "sync" /\ ~tasks[t].silent

\* the step that ends such a handler leaves loading false
C30_EndsNotLoading ==
    [][\A t \in TaskIds : (ShowsLoading(t) /\ Ends(t)) => loading' = FALSE]_vars

\* C30: every execution of handleOpen, handleCreateNew, handleUnlock,
\* handleCreatePassword and of an explicit handleSync eventually ends, and ends
\* with loading = false, on every path, provided every timer fires and every
\* awaited platform call returns or throws.
C30_HandlersEndNotLoading ==
    /\ [][\A t \in TaskIds : (ShowsLoading(t) /\ Ends(t)) => loading' = FALSE]_vars
    /\ \A t \in TaskIds : ShowsLoading(t) ~> (IsFree(t) /\ ~loading)

\* handleCreateNew has ended on its error path (the creation was cancelled):
\* no handler is running and loading is false
C30_Witness ==
    /\ scen.log = "canceled" /\ Quiet /\ ~loading
    /\ state = "CREATE_DB_NAME" /\ error = "create"

====
